---- MODULE Spec2Model ----
(***************************************************************************)
(* Model of the concurrent fetch pipeline of word-counter                  *)
(* (internal/fetcher/fetcher.go): the FetchURLs dispatcher, one processURL *)
(* task per URL, the shared backoffManager with its timer goroutines, the  *)
(* bounded result channel and the context the whole run lives under.       *)
(***************************************************************************)
EXTENDS Integers, Sequences, FiniteSets, TLC

\* ---------------------------------------------------------------- bounds
NumURLs == 2          \* length of the urls slice handed to FetchURLs
MaxWorkers == 2       \* config.WorkerCount is drawn from 1..MaxWorkers
MaxRetries == 2       \* config.MaxRetries
ResultBuffer == 1     \* config.ResultBuffer, capacity of f.results

URLs == 1..NumURLs

\* every arming follows a rate-limit response, and a url receives at most
\* MaxRetries responses
Windows == 1..(NumURLs * MaxRetries)

\* HTTP status codes the server may answer with; 0 stands for client.Do
\* returning an error (no response at all).
Statuses == {0, 200, 404, 429, 500, 999}

VARIABLES
  ctx,          \* "live" | "near" (deadline closer than one limiter wait) | "cancelled"
  workerCount,  \* f.config.WorkerCount
  dpc,          \* position of the FetchURLs goroutine
  di,           \* index of the url the dispatcher loop is at
  pc,           \* position of each processURL task
  attempt,      \* processURL's loop variable
  waitCh,       \* channel value the select of line 135 evaluated
  pending,      \* arguments of the sendResult call a task is about to make
  isActive,     \* f.backoff.isActive
  signal,       \* f.backoff.signal (channel identity)
  mutex,        \* f.backoff.mutex held
  armed,        \* number of channels made by handleRateLimit so far
  timer,        \* state of the timer goroutine of each arming ("none": not started)
  closed,       \* set of backoff channels that have been closed
  results,      \* buffered contents of f.results
  resultsClosed,\* f.results has been closed
  metrics,      \* f.metrics
  panicked,     \* the process died of a runtime panic
  hist,         \* history: classes of the responses each url received
  reqs,         \* history: HTTP requests issued per url
  tokens,       \* history: limiter tokens acquired per url
  tokAttempt,   \* history: attempt index at the last token acquisition
  sent,         \* history: sendResult calls per url
  placed,       \* history: results per url that entered f.results
  errAdds,      \* history: metrics.errors increments per url
  rlAdds,       \* history: metrics.rateLimited increments per url
  obsTop,       \* history: window seen active by the load of line 131 of the attempt
                \* under way (0: none)
  obsRL,        \* history: window in force when handleRateLimit returned after the
                \* url's first request, until its second request completes (0: none)
  lastClear,    \* history: value of armed at the latest isActive.Store(false)
  phase,        \* position of a caller of the processor's functions
  rawWords,     \* argument of ProcessValidWordBank
  wordBank,     \* ValidWordBank.words (its key set)
  asked,        \* argument of the latest IsValid call
  answer,       \* result of the latest IsValid call
  contentIn,    \* argument content of ProcessContent
  validWords,   \* result of ProcessContent
  counts,       \* SafeWordCounter.counts
  incLog,       \* history: the Increment calls made, in order
  topN,         \* argument of the latest GetTopWordCounts call
  topWords,     \* result of the latest GetTopWordCounts call
  topAt,        \* history: number of Increment calls made before that call
  numWorkers,   \* WorkerPool.numWorkers
  jobs,         \* buffered contents of WorkerPool.jobs
  jobsClosed,   \* WorkerPool.jobs has been closed
  wpResults,    \* buffered contents of WorkerPool.results
  wpResultsClosed, \* WorkerPool.results has been closed
  wpc,          \* position of each worker goroutine ("none": not started)
  wheld,        \* wordCounts a worker is about to send
  cpc,          \* position of the goroutine that submits and closes
  cheld,        \* content that goroutine is about to submit
  todo,         \* texts that goroutine has still to submit
  rpc,          \* position of the goroutine that receives the partial counts
  rheld,        \* partial count map that goroutine has just received
  drainMode,    \* "concurrent": receiving runs beside submitting; "afterClose": after Close returned
  mpc,          \* position of main: "waiting" for done, "released", "finished"
  submitted,    \* history: texts whose Submit returned
  received,     \* history: number of partial count maps received
  discarded     \* history: items received from a queue and thrown away

vars == <<ctx, workerCount, dpc, di, pc, attempt, waitCh, pending, isActive,
          signal, mutex, armed, timer, closed, results, resultsClosed,
          metrics, panicked, hist, reqs, tokens, tokAttempt, sent, placed,
          errAdds, rlAdds, obsTop, obsRL, lastClear,
          phase, rawWords, wordBank, asked, answer, contentIn, validWords,
          counts, incLog, topN, topWords, topAt,
          numWorkers, jobs, jobsClosed, wpResults, wpResultsClosed, wpc, wheld,
          cpc, cheld, todo, rpc, rheld, drainMode, mpc, submitted, received,
          discarded>>

dispVars == <<dpc, di>>
backoffVars == <<isActive, signal, mutex, armed, timer, closed, lastClear>>
chanVars == <<results, resultsClosed, placed>>
histVars == <<hist, reqs, tokens, tokAttempt, sent, errAdds, rlAdds, obsTop, obsRL>>
fetcherVars == <<ctx, workerCount, dispVars, pc, attempt, waitCh, pending,
                 backoffVars, chanVars, metrics, panicked, histVars>>
bankVars == <<rawWords, wordBank, asked, answer>>
contentVars == <<contentIn, validWords>>
counterVars == <<counts, incLog, topN, topWords, topAt>>
\* the state of package processor, which no step of the fetcher touches
poolVars == <<numWorkers, jobs, jobsClosed, wpResults, wpResultsClosed, wpc, wheld>>
callerVars == <<cpc, cheld, todo, rpc, rheld, drainMode, mpc, submitted, received,
                discarded>>
restVars == <<phase, bankVars, contentVars, counterVars, poolVars, callerVars>>

NoResult == [url |-> 0, content |-> "", err |-> "", retryCount |-> 0]

FetchResult(url, content, retryCount, errorMsg) ==
  [url |-> url, content |-> content, err |-> errorMsg, retryCount |-> retryCount]

\* ctx.Err() != nil, equivalently ctx.Done() is closed
ctxDone == ctx = "cancelled"

Running == ~panicked

\* ------------------------------------------------------- pure functions
handleResponse404AsError(status) ==
  CASE status = 200 -> [content |-> "text", err |-> ""]
    [] status \in {429, 999} -> [content |-> "", err |-> "ratelimit"]
    [] OTHER -> [content |-> "", err |-> "error"]

handleResponse(status) ==
  CASE status = 200 -> [content |-> "text", err |-> ""]
    [] status \in {429, 999} -> [content |-> "", err |-> "ratelimit"]
    [] status = 404 -> [content |-> "", err |-> ""]
    [] OTHER -> [content |-> "", err |-> "error"]

fetch(status) ==
  IF status = 0 THEN [content |-> "", err |-> "error"]
  ELSE handleResponse(status)

isRateLimit(err) == err = "ratelimit"

\* what the server did, as recorded in hist: the classes of status codes that
\* the switch of handleResponse (and the error of client.Do) tells apart
Class(status) ==
  CASE status = 200 -> "ok"
    [] status = 404 -> "notfound"
    [] status \in {429, 999} -> "ratelimit"
    [] OTHER -> "error"

IsLastAttemptNever(a) == a = MaxRetries

\* line 167: attempt == f.config.MaxRetries-1
IsLastAttempt(a) == a = MaxRetries - 1

ContinueSameAttempt(a) == a

\* the post statement attempt++ that `continue` (line 164) runs
ContinueAttempt(a) == a + 1

PoolUnbounded(started) == TRUE

\* urlPool <- struct{}{} can proceed: fewer than WorkerCount slots taken
PoolHasRoom(started) == Cardinality(started) < workerCount

\* tasks that were launched and have not returned
Started == {u \in URLs : pc[u] \notin {"idle", "done"}}

\* NewFetcher (lines 85-93) and the entry of FetchURLs
FetcherInit ==
  /\ ctx = "live"
  /\ workerCount \in 1..MaxWorkers
  /\ dpc = "check"
  /\ di = 1
  /\ pc = [u \in URLs |-> "idle"]
  /\ attempt = [u \in URLs |-> 0]
  /\ waitCh = [u \in URLs |-> 0]
  /\ pending = [u \in URLs |-> NoResult]
  /\ isActive = FALSE
  /\ signal = 0
  /\ mutex = FALSE
  /\ armed = 0
  /\ timer = [c \in Windows |-> "none"]
  /\ closed = {}
  /\ results = <<>>
  /\ resultsClosed = FALSE
  /\ metrics = [processed |-> 0, errors |-> 0, rateLimited |-> 0]
  /\ panicked = FALSE
  /\ hist = [u \in URLs |-> <<>>]
  /\ reqs = [u \in URLs |-> 0]
  /\ tokens = [u \in URLs |-> 0]
  /\ tokAttempt = [u \in URLs |-> 0]
  /\ sent = [u \in URLs |-> <<>>]
  /\ placed = [u \in URLs |-> 0]
  /\ errAdds = [u \in URLs |-> 0]
  /\ rlAdds = [u \in URLs |-> 0]
  /\ obsTop = [u \in URLs |-> 0]
  /\ obsRL = [u \in URLs |-> 0]
  /\ lastClear = 0

\* no ValidWordBank built, no text processed
ProcessorIdle ==
  /\ rawWords = <<>>
  /\ wordBank = {}
  /\ asked = <<>>
  /\ answer = FALSE
  /\ contentIn = <<>>
  /\ validWords = <<>>

\* NewSafeWordCounter (processor.go lines 137-141)
NewSafeWordCounter ==
  /\ counts = <<>>
  /\ incLog = <<>>
  /\ topN = 0
  /\ topWords = <<>>
  /\ topAt = 0

MaxPoolWorkers == 2   \* largest numWorkers handed to NewWorkerPool

Workers == 1..MaxPoolWorkers

\* no WorkerPool made, no goroutine of main or of a test running
PipelineIdle ==
  /\ numWorkers = 0
  /\ jobs = <<>>
  /\ jobsClosed = FALSE
  /\ wpResults = <<>>
  /\ wpResultsClosed = FALSE
  /\ wpc = [w \in Workers |-> "none"]
  /\ wheld = [w \in Workers |-> <<>>]
  /\ cpc = "none"
  /\ cheld = <<>>
  /\ todo = <<>>
  /\ rpc = "none"
  /\ rheld = <<>>
  /\ drainMode = "concurrent"
  /\ mpc = "none"
  /\ submitted = <<>>
  /\ received = 0
  /\ discarded = 0

Init ==
  /\ FetcherInit
  /\ phase = "idle"
  /\ ProcessorIdle
  /\ NewSafeWordCounter
  /\ PipelineIdle

\* ------------------------------------------------------------ context
\* the deadline of context.WithTimeout comes within one limiter interval
DeadlineNear ==
  /\ Running
  /\ ctx = "live"
  /\ ctx' = "near"
  /\ UNCHANGED <<restVars, workerCount, dispVars, pc, attempt, waitCh, pending, backoffVars,
                 chanVars, metrics, panicked, histVars>>

\* cancel() is called or the deadline passes
Cancel ==
  /\ Running
  /\ ctx # "cancelled"
  /\ ctx' = "cancelled"
  /\ UNCHANGED <<restVars, workerCount, dispVars, pc, attempt, waitCh, pending, backoffVars,
                 chanVars, metrics, panicked, histVars>>

\* --------------------------------------------------------- dispatcher
\* lines 103-106: loop condition and ctx.Err() test
DispatchCheck ==
  /\ Running
  /\ dpc = "check"
  /\ IF di > NumURLs THEN dpc' = "wait" /\ UNCHANGED resultsClosed
     ELSE IF ctxDone THEN dpc' = "closed" /\ resultsClosed' = TRUE
     ELSE dpc' = "admit" /\ UNCHANGED resultsClosed
  /\ UNCHANGED <<restVars, ctx, workerCount, di, pc, attempt, waitCh, pending, backoffVars,
                 results, placed, metrics, panicked, histVars>>

\* lines 108-116: take a pool slot, wg.Add(1), launch the task
DispatchAdmit ==
  /\ Running
  /\ dpc = "admit"
  /\ PoolHasRoom(Started)
  /\ pc' = [pc EXCEPT ![di] = "top"]
  /\ di' = di + 1
  /\ dpc' = "check"
  /\ UNCHANGED <<restVars, ctx, workerCount, attempt, waitCh, pending, backoffVars,
                 chanVars, metrics, panicked, histVars>>

\* lines 119 and 101: wg.Wait() returns, deferred close(f.results)
DispatchWaitClose ==
  /\ Running
  /\ dpc = "wait"
  /\ Started = {}
  /\ dpc' = "closed"
  /\ resultsClosed' = TRUE
  /\ UNCHANGED <<restVars, ctx, workerCount, di, pc, attempt, waitCh, pending, backoffVars,
                 results, placed, metrics, panicked, histVars>>

\* ------------------------------------------------------ processURL
\* lines 150-182: what processURL does with the (content, err) of fetch
AfterFetch(u, r) ==
  IF r.err = "" THEN
    /\ metrics' = [metrics EXCEPT !.processed = @ + 1]
    /\ IF ctxDone
       THEN pc' = [pc EXCEPT ![u] = "done"] /\ UNCHANGED pending
       ELSE /\ pc' = [pc EXCEPT ![u] = "send"]
            /\ pending' = [pending EXCEPT ![u] = FetchResult(u, r.content, attempt[u], "")]
    /\ UNCHANGED <<errAdds, rlAdds>>
  ELSE IF isRateLimit(r.err) THEN
    /\ metrics' = [metrics EXCEPT !.rateLimited = @ + 1]
    /\ rlAdds' = [rlAdds EXCEPT ![u] = @ + 1]
    /\ pc' = [pc EXCEPT ![u] = "hrlCheck"]
    /\ UNCHANGED <<pending, errAdds>>
  ELSE IF IsLastAttempt(attempt[u]) THEN
    /\ metrics' = [metrics EXCEPT !.errors = @ + 1]
    /\ errAdds' = [errAdds EXCEPT ![u] = @ + 1]
    /\ IF ctxDone
       THEN pc' = [pc EXCEPT ![u] = "done"] /\ UNCHANGED pending
       ELSE /\ pc' = [pc EXCEPT ![u] = "send"]
            /\ pending' = [pending EXCEPT ![u] = FetchResult(u, "", attempt[u], "fetch")]
    /\ UNCHANGED rlAdds
  ELSE
    /\ pc' = [pc EXCEPT ![u] = "sleep"]
    /\ UNCHANGED <<metrics, pending, errAdds, rlAdds>>

\* lines 126-131: loop condition, ctx.Err() test, isActive.Load()
LoopTop(u) ==
  /\ Running
  /\ pc[u] = "top"
  /\ IF attempt[u] >= MaxRetries \/ ctxDone THEN
       pc' = [pc EXCEPT ![u] = "done"] /\ UNCHANGED obsTop
     ELSE IF isActive THEN
       pc' = [pc EXCEPT ![u] = "select"] /\ obsTop' = [obsTop EXCEPT ![u] = armed]
     ELSE
       pc' = [pc EXCEPT ![u] = "limiter"] /\ obsTop' = [obsTop EXCEPT ![u] = 0]
  /\ UNCHANGED <<restVars, ctx, workerCount, dispVars, attempt, waitCh, pending, backoffVars,
                 chanVars, metrics, panicked, hist, reqs, tokens, tokAttempt,
                 sent, errAdds, rlAdds, obsRL>>

\* line 135: the select evaluates f.backoff.signal once, on entry
EnterSelect(u) ==
  /\ Running
  /\ pc[u] = "select"
  /\ waitCh' = [waitCh EXCEPT ![u] = signal]
  /\ pc' = [pc EXCEPT ![u] = "blocked"]
  /\ UNCHANGED <<restVars, ctx, workerCount, dispVars, attempt, pending, backoffVars,
                 chanVars, metrics, panicked, histVars>>

\* lines 132-136: one of the two cases of the select becomes ready
AwaitSignal(u) ==
  /\ Running
  /\ pc[u] = "blocked"
  /\ \/ ctxDone /\ pc' = [pc EXCEPT ![u] = "done"]
     \/ waitCh[u] \in closed /\ pc' = [pc EXCEPT ![u] = "limiter"]
  /\ UNCHANGED <<restVars, ctx, workerCount, dispVars, attempt, waitCh, pending, backoffVars,
                 chanVars, metrics, panicked, histVars>>

LimiterFailedFallsThrough(u) ==
  /\ pc' = [pc EXCEPT ![u] = "fetch"]
  /\ UNCHANGED pending

LimiterFailedAlwaysSends(u) ==
  /\ pc' = [pc EXCEPT ![u] = "send"]
  /\ pending' = [pending EXCEPT ![u] = FetchResult(u, "", attempt[u], "limiter")]

\* lines 140-146: limiter.Wait returned an error
LimiterFailed(u) ==
  IF ctxDone
  THEN pc' = [pc EXCEPT ![u] = "done"] /\ UNCHANGED pending
  ELSE /\ pc' = [pc EXCEPT ![u] = "send"]
       /\ pending' = [pending EXCEPT ![u] = FetchResult(u, "", attempt[u], "limiter")]

\* line 139: f.limiter.Wait(ctx) returns nil with a token, or an error when
\* ctx is done or its deadline is closer than the wait for the next token
LimiterWait(u) ==
  /\ Running
  /\ pc[u] = "limiter"
  /\ \/ /\ ctx # "cancelled"
        /\ tokens' = [tokens EXCEPT ![u] = @ + 1]
        /\ tokAttempt' = [tokAttempt EXCEPT ![u] = attempt[u]]
        /\ pc' = [pc EXCEPT ![u] = "fetch"]
        /\ UNCHANGED pending
     \/ /\ ctx # "live"
        /\ LimiterFailed(u)
        /\ UNCHANGED <<tokens, tokAttempt>>
  /\ UNCHANGED <<restVars, ctx, workerCount, dispVars, attempt, waitCh, backoffVars,
                 chanVars, metrics, panicked, hist, reqs, sent, errAdds, rlAdds,
                 obsTop, obsRL>>

IssueIgnoringCtx(u) ==
  /\ Running
  /\ pc[u] = "fetch"
  /\ reqs' = [reqs EXCEPT ![u] = @ + 1]
  /\ pc' = [pc EXCEPT ![u] = "inflight"]
  /\ UNCHANGED <<restVars, metrics, pending, errAdds, rlAdds>>
  /\ UNCHANGED <<restVars, ctx, workerCount, dispVars, attempt, waitCh, backoffVars,
                 chanVars, panicked, hist, tokens, tokAttempt, sent, obsTop, obsRL>>

\* lines 149, 186-195: fetch sends the request; client.Do with a done
\* context fails without sending anything
Issue(u) ==
  /\ Running
  /\ pc[u] = "fetch"
  /\ IF ctxDone
     THEN AfterFetch(u, [content |-> "", err |-> "error"]) /\ UNCHANGED reqs
     ELSE /\ reqs' = [reqs EXCEPT ![u] = @ + 1]
          /\ pc' = [pc EXCEPT ![u] = "inflight"]
          /\ UNCHANGED <<metrics, pending, errAdds, rlAdds>>
  /\ UNCHANGED <<restVars, ctx, workerCount, dispVars, attempt, waitCh, backoffVars,
                 chanVars, panicked, hist, tokens, tokAttempt, sent, obsTop, obsRL>>

\* lines 192-198 and 150-182: the request completes with some status
Response(u) ==
  /\ Running
  /\ pc[u] = "inflight"
  /\ \E status \in Statuses :
       /\ hist' = [hist EXCEPT ![u] = Append(@, Class(status))]
       /\ AfterFetch(u, fetch(status))
  /\ obsTop' = [obsTop EXCEPT ![u] = 0]
  /\ obsRL' = [obsRL EXCEPT ![u] = 0]
  /\ UNCHANGED <<restVars, ctx, workerCount, dispVars, attempt, waitCh, backoffVars,
                 chanVars, panicked, reqs, tokens, tokAttempt, sent>>

\* lines 178-182 and the loop's attempt++
RetrySleep(u) ==
  /\ Running
  /\ pc[u] = "sleep"
  /\ \/ ctxDone /\ pc' = [pc EXCEPT ![u] = "done"] /\ UNCHANGED attempt
     \/ /\ ~ctxDone
        /\ attempt' = [attempt EXCEPT ![u] = @ + 1]
        /\ pc' = [pc EXCEPT ![u] = "top"]
  /\ UNCHANGED <<restVars, ctx, workerCount, dispVars, waitCh, pending, backoffVars,
                 chanVars, metrics, panicked, histVars>>

sendResultBlocking(u) ==
  /\ Running
  /\ pc[u] = "send"
  /\ resultsClosed \/ Len(results) < ResultBuffer
  /\ sent' = [sent EXCEPT ![u] = Append(@, pending[u])]
  /\ pending' = [pending EXCEPT ![u] = NoResult]
  /\ pc' = [pc EXCEPT ![u] = "done"]
  /\ IF resultsClosed THEN
       panicked' = TRUE /\ UNCHANGED <<results, placed>>
     ELSE
       /\ results' = Append(results, pending[u])
       /\ placed' = [placed EXCEPT ![u] = @ + 1]
       /\ UNCHANGED panicked
  /\ UNCHANGED <<restVars, ctx, workerCount, dispVars, attempt, waitCh, backoffVars,
                 resultsClosed, metrics, hist, reqs, tokens, tokAttempt,
                 errAdds, rlAdds, obsTop, obsRL>>

\* lines 259-273: non-blocking send on f.results
sendResult(u) ==
  /\ Running
  /\ pc[u] = "send"
  /\ sent' = [sent EXCEPT ![u] = Append(@, pending[u])]
  /\ pending' = [pending EXCEPT ![u] = NoResult]
  /\ pc' = [pc EXCEPT ![u] = "done"]
  /\ IF resultsClosed THEN
       panicked' = TRUE /\ UNCHANGED <<results, placed>>
     ELSE IF Len(results) < ResultBuffer THEN
       /\ results' = Append(results, pending[u])
       /\ placed' = [placed EXCEPT ![u] = @ + 1]
       /\ UNCHANGED panicked
     ELSE UNCHANGED <<results, placed, panicked>>
  /\ UNCHANGED <<restVars, ctx, workerCount, dispVars, attempt, waitCh, backoffVars,
                 resultsClosed, metrics, hist, reqs, tokens, tokAttempt,
                 errAdds, rlAdds, obsTop, obsRL>>

\* the caller of FetchURLs receives from the returned channel
Consume ==
  /\ Running
  /\ results # <<>>
  /\ results' = Tail(results)
  /\ UNCHANGED <<restVars, ctx, workerCount, dispVars, pc, attempt, waitCh, pending,
                 backoffVars, resultsClosed, placed, metrics, panicked, histVars>>

\* --------------------------------------------------- handleRateLimit
\* return from handleRateLimit and `continue`
hrlReturn(u) ==
  /\ attempt' = [attempt EXCEPT ![u] = ContinueAttempt(@)]
  /\ pc' = [pc EXCEPT ![u] = "top"]

\* line 202: if !f.backoff.isActive.Load()
hrlCheck(u) ==
  /\ Running
  /\ pc[u] = "hrlCheck"
  /\ IF ~isActive
     THEN pc' = [pc EXCEPT ![u] = "hrlLock"] /\ UNCHANGED <<attempt, obsRL>>
     ELSE /\ hrlReturn(u)
          /\ obsRL' = [obsRL EXCEPT ![u] = IF Len(hist[u]) = 1 THEN armed ELSE 0]
  /\ UNCHANGED <<restVars, ctx, workerCount, dispVars, waitCh, pending, backoffVars,
                 chanVars, metrics, panicked, hist, reqs, tokens, tokAttempt,
                 sent, errAdds, rlAdds, obsTop>>

\* lines 203-204: mutex.Lock(); isActive.Store(true)
hrlLockStore(u) ==
  /\ Running
  /\ pc[u] = "hrlLock"
  /\ ~mutex
  /\ mutex' = TRUE
  /\ isActive' = TRUE
  /\ armed' = armed + 1
  /\ pc' = [pc EXCEPT ![u] = "hrlMake"]
  /\ UNCHANGED <<restVars, ctx, workerCount, dispVars, attempt, waitCh, pending, signal,
                 timer, closed, lastClear, chanVars, metrics, panicked, histVars>>

\* lines 205-212: signal = make(chan), mutex.Unlock(), go timer
hrlMakeUnlock(u) ==
  /\ Running
  /\ pc[u] = "hrlMake"
  /\ signal' = armed
  /\ mutex' = FALSE
  /\ timer' = [timer EXCEPT ![armed] = "sleeping"]
  /\ hrlReturn(u)
  /\ obsRL' = [obsRL EXCEPT ![u] = IF Len(hist[u]) = 1 THEN armed ELSE 0]
  /\ UNCHANGED <<restVars, ctx, workerCount, dispVars, waitCh, pending, isActive, armed,
                 closed, lastClear, chanVars, metrics, panicked, hist, reqs,
                 tokens, tokAttempt, sent, errAdds, rlAdds, obsTop>>

\* lines 209-210: time.Sleep elapsed; isActive.Store(false)
TimerStore(c) ==
  /\ Running
  /\ timer[c] = "sleeping"
  /\ isActive' = FALSE
  /\ lastClear' = armed
  /\ timer' = [timer EXCEPT ![c] = "stored"]
  /\ UNCHANGED <<restVars, ctx, workerCount, dispVars, pc, attempt, waitCh, pending,
                 signal, mutex, armed, closed, chanVars, metrics, panicked,
                 histVars>>

\* line 211: close(f.backoff.signal); closing a closed channel panics
TimerClose(c) ==
  /\ Running
  /\ timer[c] = "stored"
  /\ timer' = [timer EXCEPT ![c] = "done"]
  /\ IF signal \in closed
     THEN panicked' = TRUE /\ UNCHANGED closed
     ELSE closed' = closed \cup {signal} /\ UNCHANGED panicked
  /\ UNCHANGED <<restVars, ctx, workerCount, dispVars, pc, attempt, waitCh, pending,
                 isActive, signal, mutex, armed, lastClear, chanVars, metrics,
                 histVars>>

\* ------------------------------------------------------ specification
\* every step but the consumer's
Work ==
  \/ DeadlineNear
  \/ Cancel
  \/ DispatchCheck
  \/ DispatchAdmit
  \/ DispatchWaitClose
  \/ \E u \in URLs : LoopTop(u)
  \/ \E u \in URLs : EnterSelect(u)
  \/ \E u \in URLs : AwaitSignal(u)
  \/ \E u \in URLs : LimiterWait(u)
  \/ \E u \in URLs : Issue(u)
  \/ \E u \in URLs : Response(u)
  \/ \E u \in URLs : RetrySleep(u)
  \/ \E u \in URLs : sendResult(u)
  \/ \E u \in URLs : hrlCheck(u)
  \/ \E u \in URLs : hrlLockStore(u)
  \/ \E u \in URLs : hrlMakeUnlock(u)
  \/ \E c \in Windows : TimerStore(c)
  \/ \E c \in Windows : TimerClose(c)

Next == Work \/ Consume

Spec == Init /\ [][Next]_vars

\* The same program with a caller that keeps up: a result is received before
\* anything else happens, so f.results is never full when sendResult runs.
NextPrompt == (results = <<>> /\ Work) \/ Consume

SpecPrompt == Init /\ [][NextPrompt]_vars

\* FetchURLs run to its end on its own: the context is never cancelled and
\* its deadline never comes, and the caller never receives from the stream.
NextUnread ==
  \/ DispatchCheck
  \/ DispatchAdmit
  \/ DispatchWaitClose
  \/ \E u \in URLs : LoopTop(u)
  \/ \E u \in URLs : EnterSelect(u)
  \/ \E u \in URLs : AwaitSignal(u)
  \/ \E u \in URLs : LimiterWait(u)
  \/ \E u \in URLs : Issue(u)
  \/ \E u \in URLs : Response(u)
  \/ \E u \in URLs : RetrySleep(u)
  \/ \E u \in URLs : sendResult(u)
  \/ \E u \in URLs : hrlCheck(u)
  \/ \E u \in URLs : hrlLockStore(u)
  \/ \E u \in URLs : hrlMakeUnlock(u)
  \/ \E c \in Windows : TimerStore(c)
  \/ \E c \in Windows : TimerClose(c)

SpecUnread == Init /\ [][NextUnread]_vars

\* the scheduler runs a goroutine that can step, every request is answered
\* and every timer fires
SpecUnreadFair == SpecUnread /\ WF_vars(NextUnread)

TypeOK ==
  /\ ctx \in {"live", "near", "cancelled"}
  /\ workerCount \in 1..MaxWorkers
  /\ \A u \in URLs : attempt[u] \in 0..MaxRetries
  /\ Len(results) <= ResultBuffer
  /\ signal \in 0..armed
  /\ closed \subseteq 0..armed
  /\ armed \in 0..(NumURLs * MaxRetries)

\* ================================================= package processor
\* Strings are sequences of byte values: 65..90 are 'A'..'Z', 97..122 are
\* 'a'..'z', 49 is '1', 45 is '-', 32 is the space, 10 the newline.

\* bounds of the inputs the functions of processor.go are applied to
MaxWordLen == 4       \* longest raw word handed to ProcessValidWordBank
MaxRawWords == 2      \* length of rawWords
MaxContentLen == 7    \* longest content handed to ProcessContent
MaxIncrements == 3    \* Increment calls made on one SafeWordCounter
MaxTopN == 3          \* largest topN asked of GetTopWordCounts

\* all byte strings over alphabet of length lo..hi
StringsOver(alphabet, lo, hi) ==
  UNION {[1..n -> alphabet] : n \in lo..hi}

\* strings.ToLower on one ASCII byte
toLowerByte(c) == IF c >= 65 /\ c <= 90 THEN c + 32 ELSE c

\* line 19: strings.ToLower(word)
ToLower(word) == [i \in 1..Len(word) |-> toLowerByte(word[i])]

isAlphaFirstRune(s) == s = <<>> \/ ~(s[1] < 97 \/ s[1] > 122)

\* lines 56-63
isAlpha(s) == \A i \in 1..Len(s) : ~(s[i] < 97 \/ s[i] > 122)

\* lines 18-23: the loop of ProcessValidWordBank from index i on, words
\* being vwb.words so far
RECURSIVE bankLoop(_, _, _)
bankLoop(raw, i, words) ==
  IF i > Len(raw) THEN words
  ELSE LET word == ToLower(raw[i])
       IN bankLoop(raw, i + 1,
                   IF Len(word) >= 3 /\ isAlpha(word) THEN words \cup {word}
                   ELSE words)

\* lines 13-26
ProcessValidWordBank(raw) == bankLoop(raw, 1, {})

\* lines 28-31
IsValid(words, word) == word \in words

\* unicode.IsSpace on the bytes used here (strings.Fields, line 34)
isSpace(c) == c \in {9, 10, 32}

\* strings.Fields: scan s from index i, cur being the field under way
RECURSIVE fieldsLoop(_, _, _, _)
fieldsLoop(s, i, cur, acc) ==
  IF i > Len(s) THEN (IF cur = <<>> THEN acc ELSE Append(acc, cur))
  ELSE IF isSpace(s[i])
       THEN fieldsLoop(s, i + 1, <<>>, IF cur = <<>> THEN acc ELSE Append(acc, cur))
       ELSE fieldsLoop(s, i + 1, Append(cur, s[i]), acc)

Fields(s) == fieldsLoop(s, 1, <<>>, <<>>)

appendByteAsIs(buf, c) ==
  IF (c >= 65 /\ c <= 90) \/ (c >= 97 /\ c <= 122) THEN Append(buf, c) ELSE buf

\* lines 41-46: one byte of the token goes to buf lower-cased, or nowhere
appendByte(buf, c) ==
  IF c >= 65 /\ c <= 90 THEN Append(buf, c + 32)
  ELSE IF c >= 97 /\ c <= 122 THEN Append(buf, c)
  ELSE buf

\* lines 39-47: the inner loop over the bytes of one token
RECURSIVE bufLoop(_, _, _)
bufLoop(word, i, buf) ==
  IF i > Len(word) THEN buf
  ELSE bufLoop(word, i + 1, appendByte(buf, word[i]))

\* lines 38-52: the outer loop over the tokens
RECURSIVE contentLoop(_, _, _, _)
contentLoop(words, w, bank, valid) ==
  IF w > Len(words) THEN valid
  ELSE LET buf == bufLoop(words[w], 1, <<>>)
       IN contentLoop(words, w + 1, bank,
                      IF Len(buf) >= 3 /\ IsValid(bank, buf) THEN Append(valid, buf)
                      ELSE valid)

\* lines 33-54
ProcessContent(c, bank) == contentLoop(Fields(c), 1, bank, <<>>)

\* ---- ProcessValidWordBank and IsValid applied to bounded inputs
BankAlphabet == {65, 97, 49}
RawWordSet == StringsOver(BankAlphabet, 2, MaxWordLen)
QueryWords == {<<97, 97>>, <<97, 97, 97>>, <<65, 97, 97>>, <<97, 49, 97>>,
               <<97, 97, 97, 97>>}

InitBank ==
  /\ FetcherInit
  /\ NewSafeWordCounter
  /\ PipelineIdle
  /\ phase = "input"
  /\ rawWords \in UNION {[1..n -> RawWordSet] : n \in 0..MaxRawWords}
  /\ wordBank = {}
  /\ asked = <<>>
  /\ answer = FALSE
  /\ contentIn = <<>>
  /\ validWords = <<>>

BuildBank ==
  /\ phase = "input"
  /\ wordBank' = ProcessValidWordBank(rawWords)
  /\ phase' = "built"
  /\ UNCHANGED <<fetcherVars, poolVars, callerVars, rawWords, asked, answer, contentVars, counterVars>>

AskIsValid(word) ==
  /\ phase = "built"
  /\ asked' = word
  /\ answer' = IsValid(wordBank, word)
  /\ UNCHANGED <<fetcherVars, poolVars, callerVars, phase, rawWords, wordBank, contentVars, counterVars>>

NextBank == BuildBank \/ \E word \in QueryWords : AskIsValid(word)

SpecBank == InitBank /\ [][NextBank]_vars

\* ---- ProcessContent applied to bounded inputs
ContentAlphabet == {65, 97, 45, 32}
BankChoices == { ProcessValidWordBank(<< <<65, 97, 97>> >>),
                 ProcessValidWordBank(<< <<97, 97, 97>>, <<97, 97, 97, 97>> >>) }

InitContent ==
  /\ FetcherInit
  /\ NewSafeWordCounter
  /\ PipelineIdle
  /\ phase = "input"
  /\ rawWords = <<>>
  /\ wordBank \in BankChoices
  /\ asked = <<>>
  /\ answer = FALSE
  /\ contentIn \in StringsOver(ContentAlphabet, 0, MaxContentLen)
  /\ validWords = <<>>

ApplyProcessContent ==
  /\ phase = "input"
  /\ validWords' = ProcessContent(contentIn, wordBank)
  /\ phase' = "applied"
  /\ UNCHANGED <<fetcherVars, poolVars, callerVars, bankVars, contentIn, counterVars>>

NextContent == ApplyProcessContent

SpecContent == InitContent /\ [][NextContent]_vars

\* ---- SafeWordCounter
CounterWords == {<<97, 97, 97>>, <<97, 97, 97, 97>>, <<97, 98>>}

\* Go's s < t on strings: bytewise lexicographic order
StrLess(s, t) ==
  \E k \in 1..Len(t) :
    /\ k <= Len(s) + 1
    /\ \A j \in 1..(k - 1) : s[j] = t[j]
    /\ k = Len(s) + 1 \/ s[k] < t[k]

wcLessTiesDescending(a, b) ==
  IF a.count = b.count THEN StrLess(b.word, a.word) ELSE a.count > b.count

\* lines 167-172: the less function handed to sort.Slice
wcLess(a, b) ==
  IF a.count = b.count THEN StrLess(a.word, b.word) ELSE a.count > b.count

\* lines 160-165: wcList before sorting, in the map's iteration order, which
\* the sort makes irrelevant
wcEntries(c) == {[word |-> w, count |-> c[w]] : w \in DOMAIN c}

\* lines 167-172: sort.Slice, by taking the least entry first
RECURSIVE sortSlice(_)
sortSlice(entries) ==
  IF entries = {} THEN <<>>
  ELSE LET first == CHOOSE x \in entries : \A y \in entries \ {x} : wcLess(x, y)
       IN <<first>> \o sortSlice(entries \ {first})

Min(a, b) == IF a < b THEN a ELSE b

\* lines 149-183
GetTopWordCounts(c, n) ==
  IF n <= 0 THEN <<>>
  ELSE LET wcList == sortSlice(wcEntries(c))
           resultLen == Min(n, Len(wcList))
       IN [i \in 1..resultLen |-> (wcList[i].word :> wcList[i].count)]

InitCounter ==
  /\ FetcherInit
  /\ ProcessorIdle
  /\ NewSafeWordCounter
  /\ PipelineIdle
  /\ phase = "counting"

\* lines 143-147
Increment(word, count) ==
  /\ phase = "counting"
  /\ Len(incLog) < MaxIncrements
  /\ counts' = IF word \in DOMAIN counts
               THEN [counts EXCEPT ![word] = @ + count]
               ELSE counts @@ (word :> count)
  /\ incLog' = Append(incLog, <<word, count>>)
  /\ UNCHANGED <<fetcherVars, poolVars, callerVars, phase, bankVars, contentVars, topN, topWords, topAt>>

CallGetTopWordCounts(n) ==
  /\ phase = "counting"
  /\ topN' = n
  /\ topWords' = GetTopWordCounts(counts, n)
  /\ topAt' = Len(incLog)
  /\ UNCHANGED <<fetcherVars, poolVars, callerVars, phase, bankVars, contentVars, counts, incLog>>

NextCounter ==
  \/ \E word \in CounterWords, count \in 1..2 : Increment(word, count)
  \/ \E n \in (0 - 1)..MaxTopN : CallGetTopWordCounts(n)

SpecCounter == InitCounter /\ [][NextCounter]_vars

\* ---- WorkerPool
\* words and texts in the manner of TestWorkerPool ("aaa", "aaaa", "aab",
\* "baa"; "aaa aab", "Aaa aaaa", "aab AAB"), kept short
aaa == <<97, 97, 97>>
aaaa == <<97, 97, 97, 97>>
aab == <<97, 97, 98>>
baa == <<98, 97, 97>>
textAaaAab == aaa \o <<32>> \o aab
textAaaAaaa == <<65, 97, 97, 32>> \o aaaa
textAabAab == aab \o <<10, 65, 65, 66>>

PoolTexts == {textAaaAab, textAaaAaaa, textAabAab}
MaxTexts == 3         \* number of texts submitted to one WorkerPool
PoolSizes == {0 - 2, 1, MaxPoolWorkers}

processorVars == <<phase, bankVars, contentVars>>

countWordsOnce(words) == [w \in {words[i] : i \in 1..Len(words)} |-> 1]

\* lines 102-104: wordCounts[word]++ for every processed word
countWords(words) ==
  [w \in {words[i] : i \in 1..Len(words)} |->
     Cardinality({i \in 1..Len(words) : words[i] = w})]

\* c.counts[word] += count for every entry of a partial count map
\* (Increment, lines 143-147, called once per entry)
mergeCounts(c, m) ==
  [w \in DOMAIN c \cup DOMAIN m |->
     (IF w \in DOMAIN c THEN c[w] ELSE 0) + (IF w \in DOMAIN m THEN m[w] ELSE 0)]

\* lines 74-78: numWorkers <= 0 becomes 1; both channels get numWorkers * 2
clampWorkers(n) == IF n <= 0 THEN 1 ELSE n

bufferSizeOnePerWorker == numWorkers

bufferSize == numWorkers * 2

\* lines 110-112: wp.jobs <- content
Submit(c) ==
  /\ ~jobsClosed
  /\ Len(jobs) < bufferSize
  /\ jobs' = Append(jobs, c)
  /\ submitted' = Append(submitted, c)

\* lines 88-93
Start ==
  /\ cpc = "start"
  /\ wpc' = [w \in Workers |-> IF w <= numWorkers THEN "recv" ELSE "none"]
  /\ cpc' = "submit"
  /\ UNCHANGED <<fetcherVars, processorVars, counterVars, numWorkers, jobs, jobsClosed,
                 wpResults, wpResultsClosed, wheld, cheld, todo, rpc, rheld,
                 drainMode, mpc, submitted, received, discarded>>

\* lines 98-104: a worker receives a text and counts its words, or finds
\* wp.jobs closed and empty and returns (wg.Done)
WorkerRecv(w) ==
  /\ wpc[w] = "recv"
  /\ IF jobs # <<>> THEN
       /\ jobs' = Tail(jobs)
       /\ wheld' = [wheld EXCEPT ![w] = countWords(ProcessContent(Head(jobs), wordBank))]
       /\ wpc' = [wpc EXCEPT ![w] = "send"]
     ELSE
       /\ jobsClosed
       /\ wpc' = [wpc EXCEPT ![w] = "done"]
       /\ UNCHANGED <<jobs, wheld>>
  /\ UNCHANGED <<fetcherVars, processorVars, counterVars, numWorkers, jobsClosed,
                 wpResults, wpResultsClosed, callerVars>>

\* line 106: wp.results <- wordCounts
WorkerSend(w) ==
  /\ wpc[w] = "send"
  /\ Len(wpResults) < bufferSize
  /\ wpResults' = Append(wpResults, wheld[w])
  /\ wheld' = [wheld EXCEPT ![w] = <<>>]
  /\ wpc' = [wpc EXCEPT ![w] = "recv"]
  /\ UNCHANGED <<fetcherVars, processorVars, counterVars, numWorkers, jobs, jobsClosed,
                 wpResultsClosed, callerVars>>

\* line 115: close(wp.jobs)
CloseJobs ==
  /\ cpc = "closeJobs"
  /\ jobsClosed' = TRUE
  /\ cpc' = "wgWait"
  /\ UNCHANGED <<fetcherVars, processorVars, counterVars, numWorkers, jobs, wpResults,
                 wpResultsClosed, wpc, wheld, cheld, todo, rpc, rheld, drainMode,
                 mpc, submitted, received, discarded>>

WgWaitWithoutWaiting ==
  /\ cpc = "wgWait"
  /\ cpc' = "closeResults"
  /\ UNCHANGED <<fetcherVars, processorVars, counterVars, poolVars, cheld, todo, rpc,
                 rheld, drainMode, mpc, submitted, received, discarded>>

\* line 116: wp.wg.Wait() returns once every worker has returned
WgWait ==
  /\ cpc = "wgWait"
  /\ \A w \in Workers : wpc[w] \in {"none", "done"}
  /\ cpc' = "closeResults"
  /\ UNCHANGED <<fetcherVars, processorVars, counterVars, poolVars, cheld, todo, rpc,
                 rheld, drainMode, mpc, submitted, received, discarded>>

\* line 117: close(wp.results), and Close returns
CloseResults ==
  /\ cpc = "closeResults"
  /\ wpResultsClosed' = TRUE
  /\ cpc' = "closed"
  /\ UNCHANGED <<fetcherVars, processorVars, counterVars, numWorkers, jobs, jobsClosed,
                 wpResults, wpc, wheld, cheld, todo, rpc, rheld, drainMode, mpc,
                 submitted, received, discarded>>

\* ---- a caller of the pool in the manner of TestWorkerPool
InitPool ==
  /\ FetcherInit
  /\ NewSafeWordCounter
  /\ phase = "idle"
  /\ rawWords = <<aaa, aaaa, aab, baa>>
  /\ wordBank = ProcessValidWordBank(rawWords)
  /\ asked = <<>>
  /\ answer = FALSE
  /\ contentIn = <<>>
  /\ validWords = <<>>
  /\ \E n \in PoolSizes : numWorkers = clampWorkers(n)
  /\ jobs = <<>>
  /\ jobsClosed = FALSE
  /\ wpResults = <<>>
  /\ wpResultsClosed = FALSE
  /\ wpc = [w \in Workers |-> "none"]
  /\ wheld = [w \in Workers |-> <<>>]
  /\ cpc = "start"
  /\ cheld = <<>>
  /\ todo \in UNION {[1..n -> PoolTexts] : n \in 0..MaxTexts}
  /\ rpc = "recv"
  /\ rheld = <<>>
  /\ drainMode \in {"concurrent", "afterClose"}
  /\ mpc = "none"
  /\ submitted = <<>>
  /\ received = 0
  /\ discarded = 0

\* lines 272-273: wp.Submit of the next text
TestSubmit ==
  /\ cpc = "submit"
  /\ todo # <<>>
  /\ Submit(Head(todo))
  /\ todo' = Tail(todo)
  /\ UNCHANGED <<fetcherVars, processorVars, counterVars, numWorkers, jobsClosed,
                 wpResults, wpResultsClosed, wpc, wheld, cpc, cheld, rpc, rheld,
                 drainMode, mpc, received, discarded>>

\* line 274: wp.Close() is called
TestClose ==
  /\ cpc = "submit"
  /\ todo = <<>>
  /\ cpc' = "closeJobs"
  /\ UNCHANGED <<fetcherVars, processorVars, counterVars, poolVars, cheld, todo, rpc,
                 rheld, drainMode, mpc, submitted, received, discarded>>

\* lines 276-281: for result := range wp.Results(), adding every count to
\* the total; in the test this loop starts after Close has returned
TestDrain ==
  /\ rpc = "recv"
  /\ drainMode = "afterClose" => cpc = "closed"
  /\ IF wpResults # <<>> THEN
       /\ wpResults' = Tail(wpResults)
       /\ counts' = mergeCounts(counts, Head(wpResults))
       /\ received' = received + 1
       /\ UNCHANGED rpc
     ELSE
       /\ wpResultsClosed
       /\ rpc' = "done"
       /\ UNCHANGED <<wpResults, counts, received>>
  /\ UNCHANGED <<fetcherVars, processorVars, incLog, topN, topWords, topAt, numWorkers,
                 jobs, jobsClosed, wpResultsClosed, wpc, wheld, cpc, cheld, todo,
                 rheld, drainMode, mpc, submitted, discarded>>

NextPool ==
  \/ Start
  \/ TestSubmit
  \/ TestClose
  \/ CloseJobs
  \/ WgWait
  \/ CloseResults
  \/ TestDrain
  \/ \E w \in Workers : WorkerSend(w)
  \/ \E w \in Workers : WorkerRecv(w)

SpecPool == InitPool /\ [][NextPool]_vars

\* the Go scheduler runs a goroutine that can take a step
SpecPoolFair == SpecPool /\ WF_vars(NextPool)

\* ---- main (cmd/counter/main.go): fetcher, forwarding goroutine, pool,
\* collecting goroutine and the wait for done
MainWorkers == 1      \* defaultNumWorkers, scaled down

\* the body of a fetched page as bytes: FetchResult.Content is "text" for a
\* page with text and "" otherwise
pageBytes(c) == IF c = "text" THEN textAaaAab ELSE <<>>

\* The run is taken up at a moment when the urls before the last NumURLs
\* have been dealt with and the collecting goroutine has not been scheduled
\* yet: the pool's queues are at any fill level, worker 1 is idle or holds the
\* counts of a page.
InitMain ==
  /\ FetcherInit
  /\ NewSafeWordCounter
  /\ phase = "idle"
  /\ rawWords = <<aaa, aaaa, aab, baa>>
  /\ wordBank = ProcessValidWordBank(rawWords)
  /\ asked = <<>>
  /\ answer = FALSE
  /\ contentIn = <<>>
  /\ validWords = <<>>
  /\ numWorkers = clampWorkers(MainWorkers)
  /\ \E n \in 0..bufferSize : jobs = [i \in 1..n |-> pageBytes("text")]
  /\ jobsClosed = FALSE
  /\ \E n \in 0..bufferSize :
       wpResults = [i \in 1..n |-> countWords(ProcessContent(pageBytes("text"), wordBank))]
  /\ wpResultsClosed = FALSE
  /\ \/ /\ wpc = [w \in Workers |-> IF w <= numWorkers THEN "recv" ELSE "none"]
        /\ wheld = [w \in Workers |-> <<>>]
     \/ /\ wpc = [w \in Workers |-> IF w <= numWorkers THEN "send" ELSE "none"]
        /\ wheld = [w \in Workers |->
                      IF w <= numWorkers
                      THEN countWords(ProcessContent(pageBytes("text"), wordBank))
                      ELSE <<>>]
  /\ cpc = "recv"
  /\ cheld = <<>>
  /\ todo = <<>>
  /\ rpc = "recv"
  /\ rheld = <<>>
  /\ drainMode = "concurrent"
  /\ mpc = "waiting"
  /\ submitted = <<>>
  /\ received = 0
  /\ discarded = 0

\* the server answers every request with the page (200) or with 404
Answered(u) ==
  /\ Response(u)
  /\ hist'[u][Len(hist'[u])] \in {"ok", "notfound"}

\* main.go line 77: for result := range results; when the stream is closed
\* and empty the loop ends and the deferred pool.Close() starts
ForwardRecv ==
  /\ Running
  /\ cpc = "recv"
  /\ IF results # <<>> THEN
       /\ results' = Tail(results)
       /\ cheld' = pageBytes(Head(results).content)
       /\ cpc' = "select"
     ELSE
       /\ resultsClosed
       /\ cpc' = "closeJobs"
       /\ UNCHANGED <<results, cheld>>
  /\ UNCHANGED <<ctx, workerCount, dispVars, pc, attempt, waitCh, pending, backoffVars,
                 resultsClosed, placed, metrics, panicked, histVars, processorVars,
                 counterVars, poolVars, todo, rpc, rheld, drainMode, mpc, submitted,
                 received, discarded>>

\* main.go lines 78-82: select on ctx.Done() with a default; on a cancelled
\* context the goroutine returns, which runs the deferred pool.Close()
ForwardSelect ==
  /\ Running
  /\ cpc = "select"
  /\ IF ctxDone THEN
       /\ cpc' = "closeJobs"
       /\ cheld' = <<>>
       /\ discarded' = discarded + 1
     ELSE
       /\ cpc' = "submitting"
       /\ UNCHANGED <<cheld, discarded>>
  /\ UNCHANGED <<fetcherVars, processorVars, counterVars, poolVars, todo, rpc, rheld,
                 drainMode, mpc, submitted, received>>

\* main.go line 83: pool.Submit(result.Content)
ForwardSubmit ==
  /\ Running
  /\ cpc = "submitting"
  /\ Submit(cheld)
  /\ cheld' = <<>>
  /\ cpc' = "recv"
  /\ UNCHANGED <<fetcherVars, processorVars, counterVars, numWorkers, jobsClosed,
                 wpResults, wpResultsClosed, wpc, wheld, todo, rpc, rheld,
                 drainMode, mpc, received, discarded>>

\* main.go line 95: for wordFrequencies := range pool.Results()
CollectRecv ==
  /\ Running
  /\ rpc = "recv"
  /\ IF wpResults # <<>> THEN
       /\ wpResults' = Tail(wpResults)
       /\ rheld' = Head(wpResults)
       /\ received' = received + 1
       /\ rpc' = "select"
     ELSE
       /\ wpResultsClosed
       /\ rpc' = "done"
       /\ UNCHANGED <<wpResults, rheld, received>>
  /\ UNCHANGED <<fetcherVars, processorVars, counterVars, numWorkers, jobs, jobsClosed,
                 wpResultsClosed, wpc, wheld, cpc, cheld, todo, drainMode, mpc,
                 submitted, discarded>>

\* main.go lines 96-104: select on ctx.Done() with a default that merges the
\* received map into the word counter; on a cancelled context the goroutine
\* returns (wg.Done)
CollectSelect ==
  /\ Running
  /\ rpc = "select"
  /\ rheld' = <<>>
  /\ IF ctxDone THEN
       /\ rpc' = "done"
       /\ discarded' = discarded + 1
       /\ UNCHANGED counts
     ELSE
       /\ rpc' = "recv"
       /\ counts' = mergeCounts(counts, rheld)
       /\ UNCHANGED discarded
  /\ UNCHANGED <<fetcherVars, processorVars, incLog, topN, topWords, topAt, poolVars,
                 cpc, cheld, todo, drainMode, mpc, submitted, received>>

\* main.go lines 66-69: wg.Wait() returns once both goroutines have returned
\* (the forwarding one after pool.Close()), then close(done)
WaitDone ==
  /\ Running
  /\ mpc = "waiting"
  /\ cpc = "closed"
  /\ rpc = "done"
  /\ mpc' = "released"
  /\ UNCHANGED <<fetcherVars, processorVars, counterVars, poolVars, cpc, cheld, todo,
                 rpc, rheld, drainMode, submitted, received, discarded>>

\* main.go lines 108-110: <-done, then the final ranking
MainFinish ==
  /\ Running
  /\ mpc = "released"
  /\ topN' = 10
  /\ topWords' = GetTopWordCounts(counts, 10)
  /\ topAt' = Len(incLog)
  /\ mpc' = "finished"
  /\ UNCHANGED <<fetcherVars, processorVars, counts, incLog, poolVars, cpc, cheld,
                 todo, rpc, rheld, drainMode, submitted, received, discarded>>

NextMain ==
  \/ Cancel
  \/ DispatchCheck
  \/ DispatchAdmit
  \/ DispatchWaitClose
  \/ \E u \in URLs : LoopTop(u)
  \/ \E u \in URLs : LimiterWait(u)
  \/ \E u \in URLs : Issue(u)
  \/ \E u \in URLs : Answered(u)
  \/ \E u \in URLs : RetrySleep(u)
  \/ \E u \in URLs : sendResult(u)
  \/ ForwardRecv
  \/ ForwardSelect
  \/ ForwardSubmit
  \/ CloseJobs
  \/ WgWait
  \/ CloseResults
  \/ CollectRecv
  \/ CollectSelect
  \/ WaitDone
  \/ MainFinish
  \/ \E w \in Workers : WorkerSend(w)
  \/ \E w \in Workers : WorkerRecv(w)

SpecMain == InitMain /\ [][NextMain]_vars

\* ------------------------------------------------- auxiliary notions
\* the sendResult calls of u carrying a limiter error
LimiterFailures(u) == {i \in 1..Len(sent[u]) : sent[u][i].err = "limiter"}

\* number of responses of u that were failures other than rate limits
NonRateLimitFailures(u) == Cardinality({i \in 1..Len(hist[u]) : hist[u][i] = "error"})

OnlyClass(u, cls) == hist[u] # <<>> /\ \A i \in 1..Len(hist[u]) : hist[u][i] = cls

\* window w is over: the flag was cleared after it was armed, or its channel
\* was closed
Released(w) == w \in closed \/ lastClear >= w

\* ------------------------------------------------------------- claims

\* C1: when the context is not cancelled, every url whose task has returned
\* has exactly one FetchResult placed on the result stream, and no url ever
\* has more than one.
C1_ExactlyOneResult ==
  \A u \in URLs :
    /\ placed[u] <= 1
    /\ (pc[u] = "done" /\ ~ctxDone) => placed[u] = 1

\* C2: a rate-limit response leaves the attempt index unchanged: at the top
\* of the loop the attempt index is the number of non-rate-limit failures
\* seen, a success result carries that number as retryCount, and a task whose
\* responses were all rate limits does not return without a result.
C2_RateLimitKeepsAttempt ==
  \A u \in URLs :
    /\ (pc[u] = "top" /\ ~ctxDone) => attempt[u] = NonRateLimitFailures(u)
    /\ \A i \in 1..Len(sent[u]) :
         sent[u][i].err = "" => sent[u][i].retryCount = NonRateLimitFailures(u)
    /\ ~(pc[u] = "done" /\ ~ctxDone /\ OnlyClass(u, "ratelimit") /\ sent[u] = <<>>)

\* C3: without cancellation, a url whose every request was answered by a
\* non-rate-limit error has, once its task returned, been requested exactly
\* MaxRetries times, one request at a time, has had sendResult called once,
\* with the error and retryCount = MaxRetries - 1, and has incremented
\* metrics.errors exactly once.
C3_ErrorsExhaustRetries ==
  \A u \in URLs :
    /\ reqs[u] - Len(hist[u]) = (IF pc[u] = "inflight" THEN 1 ELSE 0)
    /\ (pc[u] = "done" /\ ~ctxDone /\ OnlyClass(u, "error") /\ LimiterFailures(u) = {})
         => /\ reqs[u] = MaxRetries
            /\ sent[u] = <<FetchResult(u, "", MaxRetries - 1, "fetch")>>
            /\ errAdds[u] = 1
            /\ metrics.errors >= 1
            /\ placed[u] <= 1

C3_Witness ==
  \E u \in URLs :
    /\ pc[u] = "done" /\ ~ctxDone /\ OnlyClass(u, "error")
    /\ Len(hist[u]) = MaxRetries
    /\ placed[u] = 1

\* C4: a url whose first request is rate limited and whose second succeeds
\* gets one result, without error and with the content, the rateLimited
\* metric has grown, and the second request is not under way before the
\* window that was in force after the rate limit is over.
C4_RateLimitThenSuccess ==
  \A u \in URLs :
    /\ (pc[u] = "done" /\ ~ctxDone /\ hist[u] = <<"ratelimit", "ok">>)
         => /\ Len(sent[u]) = 1
            /\ sent[u][1].err = "" /\ sent[u][1].content = "text"
            /\ rlAdds[u] >= 1 /\ metrics.rateLimited >= 1
    /\ (pc[u] = "inflight" /\ reqs[u] = 2 /\ obsRL[u] # 0) => Released(obsRL[u])

\* C5: a url whose request is answered 404 makes no further request, does
\* not touch metrics.errors, and (unless the context is cancelled) has
\* sendResult called once, with empty content and empty error.
C5_NotFoundIsEmptySuccess ==
  \A u \in URLs :
    (hist[u] # <<>> /\ hist[u][Len(hist[u])] = "notfound")
      => /\ pc[u] \in {"send", "done"}
         /\ reqs[u] = Len(hist[u])
         /\ errAdds[u] = 0
         /\ pc[u] = "send" => pending[u] = FetchResult(u, "", attempt[u], "")
         /\ (pc[u] = "done" /\ ~ctxDone)
              => sent[u] = <<FetchResult(u, "", attempt[u], "")>>

C5_Witness ==
  \E u \in URLs :
    /\ hist[u] = <<"notfound">>
    /\ pc[u] = "done"
    /\ placed[u] = 1

\* C6: the tasks launched and not yet returned, hence the requests in
\* flight, never number more than WorkerCount.
C6_InFlightBound ==
  /\ Cardinality(Started) <= workerCount
  /\ Cardinality({u \in URLs : pc[u] = "inflight"}) <= workerCount

C6_Witness ==
  /\ dpc = "admit"
  /\ Cardinality({u \in URLs : pc[u] = "inflight"}) = workerCount

\* C7: at most one cool-down window is in flight: the timers still sleeping
\* and the armings not yet finished number at most one.
C7_OneWindowInFlight ==
  Cardinality({c \in Windows : timer[c] = "sleeping"})
    + Cardinality({u \in URLs : pc[u] = "hrlMake"}) <= 1

\* C8: a task that read the flag as active at the top of an attempt holds a
\* token or has a request under way only once the window that was active at
\* that read is over, or the context is cancelled.
C8_ActiveReaderWaits ==
  \A u \in URLs :
    (pc[u] \in {"fetch", "inflight"} /\ obsTop[u] # 0)
      => (Released(obsTop[u]) \/ ctxDone)

\* C9: no missed wake-up: once every timer that was started has run to its
\* end and no arming is under way, no task is still blocked on a release
\* signal that was not broadcast.
C9_NoMissedWakeup ==
  ( /\ ~panicked
    /\ \A c \in Windows : timer[c] \in {"none", "done"}
    /\ \A u \in URLs : pc[u] \notin {"hrlLock", "hrlMake"} )
  => \A u \in URLs : pc[u] = "blocked" => waitCh[u] \in closed

\* C10: a request is issued only with the token acquired in the same
\* attempt, a failed limiter.Wait never leads to fetch, and one token pays
\* for at most one request.
C10_TokenBeforeRequest ==
  \A u \in URLs :
    /\ reqs[u] <= tokens[u]
    /\ tokens[u] <= reqs[u] + 1
    /\ pc[u] = "fetch" => (tokens[u] = reqs[u] + 1 /\ tokAttempt[u] = attempt[u])
    /\ pc[u] = "inflight" => (tokens[u] = reqs[u] /\ tokAttempt[u] = attempt[u])

C10_Witness ==
  \E u, v \in URLs :
    /\ pc[u] = "inflight" /\ tokens[u] = MaxRetries
    /\ LimiterFailures(v) # {}

C12_NothingStartsAfterCancel ==
  [][ctxDone => \A u \in URLs :
                  /\ reqs'[u] = reqs[u]
                  /\ pc[u] = "idle" => pc'[u] = "idle"]_vars

\* C12: after the context is cancelled no task starts an HTTP request, and
\* the dispatcher starts no new admission (it may finish the one it had
\* begun before the cancellation).
C12_NoRequestAfterCancel ==
  [][ctxDone => /\ \A u \in URLs :
                     /\ reqs'[u] = reqs[u]
                     /\ pc'[u] = "inflight" => pc[u] = "inflight"
                /\ dpc' = "admit" => dpc = "admit"]_vars

C12_Witness ==
  /\ ctxDone
  /\ \E u \in URLs : pc[u] = "done" /\ tokens[u] = reqs[u] + 1 /\ sent[u] = <<>>

\* a FetchResult carrying an error is an exhausted-retry error or a limiter
\* error
LegitError(r) ==
  \/ r.err = ""
  \/ r.err = "fetch" /\ r.retryCount = MaxRetries - 1
  \/ r.err = "limiter"

\* C15: cancellation is never a per-url outcome: every error result sent or
\* on the stream is an exhausted-retry error or a limiter error, a limiter
\* error (as any result) is prepared only while the context is not cancelled,
\* and a task
\* that leaves a wait point (start of attempt, release wait, token wait,
\* retry sleep) under a cancelled context returns without sendResult.
C15_CancellationIsNoOutcome ==
  /\ [](\A u \in URLs :
          /\ \A i \in 1..Len(sent[u]) : LegitError(sent[u][i])
          /\ pending[u] # NoResult => LegitError(pending[u]))
  /\ [](\A i \in 1..Len(results) : LegitError(results[i]))
  /\ [][\A u \in URLs :
          /\ (pending'[u] # pending[u] /\ pending'[u] # NoResult)
               => ~ctxDone
          /\ (ctxDone /\ pc[u] \in {"top", "limiter", "sleep"} /\ pc'[u] # pc[u])
               => (pc'[u] = "done" /\ sent'[u] = sent[u])
          /\ (ctxDone /\ pc[u] = "blocked" /\ pc'[u] # pc[u])
               => (pc'[u] \in {"done", "limiter"} /\ sent'[u] = sent[u])]_vars

C15_Witness ==
  /\ ctxDone
  /\ \E u, v \in URLs :
       /\ pc[u] = "done" /\ sent[u] = <<>> /\ reqs[u] >= 1
       /\ LimiterFailures(v) # {}

\* C20: each armed window is released exactly once: no arming slips between
\* a timer's clearing of the flag and its close, a timer that has finished
\* has closed the channel made for its own window, and no close hits a
\* channel that is already closed.
C20_ReleasedExactlyOnce ==
  /\ \A c \in Windows : timer[c] = "stored" => (~isActive /\ signal = c)
  /\ \A c \in Windows : timer[c] = "done" => c \in closed
  /\ panicked => resultsClosed

\* C18: the ValidWordBank built from rawWords holds exactly the lower-cased
\* raw words that are at least 3 long and made of a..z only, and IsValid
\* answers membership in that set.
C18_BankIsFilteredLowercase ==
  phase = "built" =>
    /\ wordBank = { lw \in {ToLower(rawWords[i]) : i \in 1..Len(rawWords)} :
                      Len(lw) >= 3 /\ \A k \in 1..Len(lw) : lw[k] \in 97..122 }
    /\ asked # <<>> =>
         (answer <=> \E i \in 1..Len(rawWords) :
                       /\ ToLower(rawWords[i]) = asked
                       /\ Len(asked) >= 3
                       /\ \A k \in 1..Len(asked) : asked[k] \in 97..122)

C18_Witness ==
  /\ phase = "built"
  /\ \E i, j \in 1..Len(rawWords) :
       /\ \E k \in 1..Len(rawWords[i]) : rawWords[i][k] = 65
       /\ ToLower(rawWords[i]) \in wordBank
       /\ \E k \in 1..Len(rawWords[j]) : rawWords[j][k] = 49
       /\ rawWords[j][1] = 97
       /\ ToLower(rawWords[j]) \notin wordBank
  /\ asked \in wordBank /\ answer

\* the whitespace-separated tokens of c, as pairs <<first, last>> of indices
TokenSpans(c) ==
  { sp \in (1..Len(c)) \X (1..Len(c)) :
      /\ sp[1] <= sp[2]
      /\ \A k \in sp[1]..sp[2] : c[k] \notin {9, 10, 32}
      /\ sp[1] = 1 \/ c[sp[1] - 1] \in {9, 10, 32}
      /\ sp[2] = Len(c) \/ c[sp[2] + 1] \in {9, 10, 32} }

\* the normalized form of a token: its ASCII letters, lower-cased
Normalized(tok) ==
  LET letters == SelectSeq(tok, LAMBDA b : b \in 65..90 \/ b \in 97..122)
  IN [i \in 1..Len(letters) |-> IF letters[i] <= 90 THEN letters[i] + 32 ELSE letters[i]]

\* C19: ProcessContent returns, in input order, exactly the normalized forms
\* of the whitespace-separated tokens whose normalized form is at least 3
\* long and in the WordBank; other tokens contribute nothing and a token
\* contributes at most one word.
C19_ContentIsFilteredTokens ==
  phase = "applied" =>
    LET c == contentIn
        norm(sp) == Normalized(SubSeq(c, sp[1], sp[2]))
        kept == { sp \in TokenSpans(c) : Len(norm(sp)) >= 3 /\ norm(sp) \in wordBank }
        rank(sp) == Cardinality({ q \in kept : q[1] < sp[1] }) + 1
    IN /\ Len(validWords) = Cardinality(kept)
       /\ \A sp \in kept : validWords[rank(sp)] = norm(sp)

C19_Witness ==
  /\ phase = "applied"
  /\ Len(validWords) = 1
  /\ Cardinality(TokenSpans(contentIn)) = 2
  /\ \E i, j \in 1..Len(contentIn) : contentIn[i] = 65 /\ contentIn[j] = 45

\* sum of the counts of the Increment calls made for word w
RECURSIVE IncSum(_, _)
IncSum(log, w) ==
  IF log = <<>> THEN 0
  ELSE IncSum(Tail(log), w) + (IF Head(log)[1] = w THEN Head(log)[2] ELSE 0)

\* C17: GetTopWordCounts(n) on a counter holding d distinct words returns
\* nothing when n <= 0, otherwise min(n, d) single-entry items, by count
\* descending and, on equal counts, by word ascending, each count being the
\* sum of the Increment calls for its word; the stored counts always are
\* those sums (the call changes none).
C17_TopWordCounts ==
  /\ DOMAIN counts = {incLog[i][1] : i \in 1..Len(incLog)}
  /\ \A w \in DOMAIN counts : counts[w] = IncSum(incLog, w)
  /\ topAt = Len(incLog) =>
       LET d == Cardinality(DOMAIN counts)
           wordAt(i) == CHOOSE w \in DOMAIN topWords[i] : TRUE
       IN IF topN <= 0 THEN topWords = <<>>
          ELSE /\ Len(topWords) = (IF topN < d THEN topN ELSE d)
               /\ \A i \in 1..Len(topWords) :
                    /\ Cardinality(DOMAIN topWords[i]) = 1
                    /\ wordAt(i) \in DOMAIN counts
                    /\ topWords[i][wordAt(i)] = IncSum(incLog, wordAt(i))
               /\ \A i, j \in 1..Len(topWords) :
                    i < j =>
                      \/ topWords[i][wordAt(i)] > topWords[j][wordAt(j)]
                      \/ /\ topWords[i][wordAt(i)] = topWords[j][wordAt(j)]
                         /\ StrLess(wordAt(i), wordAt(j))
               /\ \A w \in DOMAIN counts :
                    (\A i \in 1..Len(topWords) : wordAt(i) # w)
                      => \A i \in 1..Len(topWords) : topWords[i][wordAt(i)] >= counts[w]

C17_Witness ==
  /\ topAt = Len(incLog)
  /\ topN = 2
  /\ Cardinality(DOMAIN counts) = 3
  /\ Len(topWords) = 2
  /\ topWords[1] = (<<97, 97, 97>> :> 1)
  /\ topWords[2] = (<<97, 97, 97, 97>> :> 1)

\* number of tokens of text c whose normalized form is the word w
Occurrences(c, w) ==
  Cardinality({sp \in TokenSpans(c) : Normalized(SubSeq(c, sp[1], sp[2])) = w})

RECURSIVE ReferenceCount(_, _)
ReferenceCount(texts, w) ==
  IF texts = <<>> THEN 0
  ELSE Occurrences(Head(texts), w) + ReferenceCount(Tail(texts), w)

\* C16: with the output stream received concurrently, submitting any texts
\* to a started pool and closing it always runs to the end, and then the
\* stream has yielded one partial map per submitted text and the word-wise
\* sum of the maps is the number of occurrences of each accepted word in the
\* texts, whatever the number of workers and the schedule.
C16_PoolCountsEveryText ==
  /\ (drainMode = "concurrent") ~> (cpc = "closed" /\ rpc = "done")
  /\ [](drainMode = "concurrent" =>
         /\ received <= Len(submitted)
         /\ rpc = "done" =>
              /\ cpc = "closed" /\ todo = <<>>
              /\ received = Len(submitted)
              /\ DOMAIN counts \subseteq wordBank
              /\ \A w \in wordBank :
                   ReferenceCount(submitted, w)
                     = (IF w \in DOMAIN counts THEN counts[w] ELSE 0))

C16_Witness ==
  /\ drainMode = "concurrent"
  /\ rpc = "done"
  /\ numWorkers = 2
  /\ submitted = <<textAaaAab, textAaaAaaa, textAabAab>>
  /\ counts = (aaa :> 2) @@ (aaaa :> 1) @@ (aab :> 3)

\* C13: a run of main that is cancelled does not hang: whenever no goroutine
\* can take a step (and the process has not died of a panic), the forwarding
\* goroutine has returned from pool.Close, the collecting goroutine has
\* returned, done is closed and main has produced the final ranking.
C13_CancelledRunTerminates ==
  (~panicked /\ ~ENABLED NextMain) => mpc = "finished"

\* C14: cancellation discards no item already in a queue: no FetchResult and
\* no partial count map received from a queue is thrown away, and when main
\* produces the final ranking the result stream, the job queue and the
\* pool's output stream are empty.
C14_QueuedItemsAreMerged ==
  /\ discarded = 0
  /\ mpc = "finished" => (results = <<>> /\ jobs = <<>> /\ wpResults = <<>>)

\* C22: the result stream is closed only after every launched task has
\* finished: whenever f.results is closed no task is between its launch and
\* its return, and no sendResult hits the closed stream.
C22_CloseAfterAllTasks ==
  /\ resultsClosed => \A u \in URLs : pc[u] \in {"idle", "done"}
  /\ ~(panicked /\ resultsClosed /\ \E u \in URLs :
         Len(sent[u]) = 1 /\ placed[u] = 0 /\ pc[u] = "done")

\* C24: a url is requested at most MaxRetries times in all, rate-limited
\* requests included, and the attempt index never passes MaxRetries.
C24_AtMostMaxRetriesRequests ==
  \A u \in URLs :
    /\ reqs[u] <= MaxRetries
    /\ Len(hist[u]) <= MaxRetries
    /\ attempt[u] <= MaxRetries

C24_Witness ==
  \E u \in URLs :
    /\ pc[u] = "done"
    /\ reqs[u] = MaxRetries
    /\ hist[u][1] = "ratelimit"
    /\ hist[u][MaxRetries] = "error"

\* C21: Close closes the job queue first, waits for every worker, and only
\* then closes the output stream: the job queue is closed only by a caller
\* inside Close, and once the output stream is closed every worker has
\* returned (none can send any more), the job queue is closed and empty, and
\* every text accepted by Submit has had its partial map put on the stream.
C21_CloseOrder ==
  /\ jobsClosed => cpc \in {"wgWait", "closeResults", "closed"}
  /\ cpc \in {"closeResults", "closed"} =>
       /\ jobsClosed /\ jobs = <<>>
       /\ \A w \in Workers : wpc[w] \in {"none", "done"}
       /\ received + Len(wpResults) = Len(submitted)
  /\ wpResultsClosed => cpc = "closed"

C21_Witness ==
  /\ wpResultsClosed
  /\ numWorkers = 2
  /\ Len(submitted) = 3
  /\ received + Len(wpResults) = 3
  /\ \A w \in Workers : wpc[w] = "done"

\* C23: used in the order of TestWorkerPool (submit M texts, Close, receive
\* only after Close has returned), Close returns exactly when M <= 2W: it
\* never returns for a larger M, it always returns otherwise, and for a
\* larger M a worker ends up blocked on the full output stream.
C23_CloseReturnsIffFits ==
  /\ [](drainMode = "afterClose" /\ cpc \in {"closeResults", "closed"}
          => Len(submitted) + Len(todo) <= 2 * numWorkers)
  /\ (drainMode = "afterClose" /\ Len(submitted) + Len(todo) <= 2 * numWorkers)
       ~> (cpc = "closed")
  /\ (drainMode = "afterClose" /\ Len(submitted) + Len(todo) > 2 * numWorkers)
       ~> ( /\ cpc \in {"submit", "wgWait"}
            /\ Len(wpResults) = 2 * numWorkers
            /\ \E w \in Workers : wpc[w] = "send" )

C23_Witness ==
  /\ drainMode = "afterClose"
  /\ numWorkers = 1
  /\ cpc = "wgWait"
  /\ Len(submitted) = 3 /\ todo = <<>> /\ jobs = <<>>
  /\ wpc[1] = "send"
  /\ Len(wpResults) = 2

\* C25: with every request answered and every timer fired, no cancellation
\* and a caller that never receives, every processURL task eventually
\* returns and f.results is eventually closed.
C25_RunEndsUnread ==
  <>(resultsClosed /\ \A u \in URLs : pc[u] = "done")

====
